---- MODULE Spec2Model ----
(***************************************************************************)
(* Package defenv: typed access to environment variables with a default.   *)
(*                                                                         *)
(* The state is the process environment (the table os.LookupEnv reads and  *)
(* os.Setenv / os.Unsetenv write) together with the platform's native      *)
(* integer width and the outcome of the accessor call that returned last.  *)
(*                                                                         *)
(* A text is a sequence of one-character strings, so that the parsers can  *)
(* scan it character by character as the Go library does.  An integer      *)
(* value (int, int64, uint, uint64, time.Duration) is a record             *)
(* [neg, mag] whose magnitude is a decimal numeral: a sequence of digits,  *)
(* most significant first, without leading zeros, << >> for zero.  The     *)
(* 64-bit and 32-bit limits are numerals of this kind, so the widths are   *)
(* the real ones.                                                          *)
(***************************************************************************)
EXTENDS Integers, Sequences, FiniteSets, TLC

VARIABLES intSize, env, ret, calls

vars == <<intSize, env, ret, calls>>

\* ------------------------------------------------------------------ texts

Digits == {"0", "1", "2", "3", "4", "5", "6", "7", "8", "9"}

DigitVal(c) ==
    CASE c = "0" -> 0 [] c = "1" -> 1 [] c = "2" -> 2 [] c = "3" -> 3
      [] c = "4" -> 4 [] c = "5" -> 5 [] c = "6" -> 6 [] c = "7" -> 7
      [] c = "8" -> 8 [] c = "9" -> 9

Rest(s) == SubSeq(s, 2, Len(s))

\* --------------------------------------------------------------- numerals

RECURSIVE Norm(_)
Norm(n) == IF n # << >> /\ Head(n) = 0 THEN Norm(Rest(n)) ELSE n

RECURSIVE LexLess(_, _)
LexLess(a, b) ==
    IF a = << >> THEN FALSE
    ELSE IF Head(a) # Head(b) THEN Head(a) < Head(b)
    ELSE LexLess(Rest(a), Rest(b))

NatLess(a, b) == Len(a) < Len(b) \/ (Len(a) = Len(b) /\ LexLess(a, b))

NatLeq(a, b) == a = b \/ NatLess(a, b)

\* n*10 + d
Times10Plus(n, d) == Norm(Append(n, d))

ZeroInt == [neg |-> FALSE, mag |-> << >>]

PosInt(m) == [neg |-> FALSE, mag |-> m]

NegInt(m) == [neg |-> m # << >>, mag |-> m]

\* 1<<64 - 1, 1<<63, 1<<32 - 1, 1<<31
MaxUint64 == <<1,8,4,4,6,7,4,4,0,7,3,7,0,9,5,5,1,6,1,5>>
Two63 == <<9,2,2,3,3,7,2,0,3,6,8,5,4,7,7,5,8,0,8>>
MaxUint32 == <<4,2,9,4,9,6,7,2,9,5>>
Two31 == <<2,1,4,7,4,8,3,6,4,8>>

\* n - 1 for a numeral n > 0
RECURSIVE Pred(_)
Pred(n) ==
    IF n[Len(n)] > 0
    THEN Norm([n EXCEPT ![Len(n)] = @ - 1])
    ELSE Norm(Append(Pred(SubSeq(n, 1, Len(n) - 1)), 9))

\* ----------------------------------------------------------------- errors

\* The error values of the callers: nil, or the fields of *strconv.NumError
\* (Func, Num, Err); for time.ParseDuration, whose error is a bare message,
\* Func is "time", Err the message, Num the text named in it and Unit the
\* unit named in it (empty but for an unknown unit).
nil == [Func |-> "", Num |-> << >>, Err |-> "nil", Unit |-> << >>]

ErrSyntax == "invalid syntax"

ErrRange == "value out of range"

syntaxError(fn, str) == [Func |-> fn, Num |-> str, Err |-> ErrSyntax, Unit |-> << >>]

rangeError(fn, str) == [Func |-> fn, Num |-> str, Err |-> ErrRange, Unit |-> << >>]

\* ------------------------------------------------------------ environment

Absent == [val |-> << >>, ok |-> FALSE]

Present(t) == [val |-> t, ok |-> TRUE]

LookupEnv(name) == env[name]

\* --------------------------------------------------------------- ParseBool

ParseBool(str) ==
    IF str \in {<<"1">>, <<"t">>, <<"T">>, <<"t","r","u","e">>,
                <<"T","R","U","E">>, <<"T","r","u","e">>}
    THEN [val |-> TRUE, err |-> nil]
    ELSE IF str \in {<<"0">>, <<"f">>, <<"F">>, <<"f","a","l","s","e">>,
                     <<"F","A","L","S","E">>, <<"F","a","l","s","e">>}
    THEN [val |-> FALSE, err |-> nil]
    ELSE [val |-> FALSE, err |-> syntaxError("ParseBool", str)]

\* ------------------------------------------------------ ParseUint, ParseInt

\* bitSize 0 stands for the platform's int and uint
BitSizeOf(bitSize) == IF bitSize = 0 THEN intSize ELSE bitSize

\* uint64(1)<<uint(bitSize) - 1
MaxValOf(bitSize) == IF BitSizeOf(bitSize) = 64 THEN MaxUint64 ELSE MaxUint32

\* uint64(1 << uint(bitSize-1))
SignedCutoffOf(bitSize) == IF BitSizeOf(bitSize) = 64 THEN Two63 ELSE Two31

\* maxUint64/10 + 1: the smallest n with n*10 > maxUint64
UintCutoff == <<1,8,4,4,6,7,4,4,0,7,3,7,0,9,5,5,1,6,2>>

\* The digit loop of ParseUint in base 10: s is what is left to scan, n the
\* value so far, s0 the whole text.  A character that is no decimal digit
\* ends the scan with a syntax error; a value that has left the range ends
\* it with a range error, before the characters after it are looked at.
\* "n1 < n" in the source is the 64-bit wrap of n + d: n1 exceeds maxUint64.
RECURSIVE ParseUintLoop(_, _, _, _)
ParseUintLoop(s, n, maxVal, s0) ==
    IF s = << >> THEN [val |-> n, err |-> nil]
    ELSE IF Head(s) \notin Digits
    THEN [val |-> << >>, err |-> syntaxError("ParseUint", s0)]
    ELSE IF NatLeq(UintCutoff, n)
    THEN [val |-> maxVal, err |-> rangeError("ParseUint", s0)]
    ELSE LET n1 == Times10Plus(n, DigitVal(Head(s))) IN
         IF NatLess(MaxUint64, n1) \/ NatLess(maxVal, n1)
         THEN [val |-> maxVal, err |-> rangeError("ParseUint", s0)]
         ELSE ParseUintLoop(Rest(s), n1, maxVal, s0)

\* strconv.ParseUint(s, 10, bitSize); the value is a numeral
ParseUint(s, bitSize) ==
    IF s = << >>
    THEN [val |-> << >>, err |-> syntaxError("ParseUint", s)]
    ELSE ParseUintLoop(s, << >>, MaxValOf(bitSize), s)

\* strconv.ParseInt(s, 10, bitSize); the value is an integer record
ParseInt(s0, bitSize) ==
    IF s0 = << >>
    THEN [val |-> ZeroInt, err |-> syntaxError("ParseInt", s0)]
    ELSE LET neg == Head(s0) = "-"
             s == IF Head(s0) \in {"+", "-"} THEN Rest(s0) ELSE s0
             u == ParseUint(s, bitSize)
             un == u.val
             cutoff == SignedCutoffOf(bitSize)
         IN  IF u.err # nil /\ u.err.Err # ErrRange
             THEN [val |-> ZeroInt, err |-> syntaxError("ParseInt", s0)]
             ELSE IF ~neg /\ NatLeq(cutoff, un)
             THEN [val |-> PosInt(Pred(cutoff)), err |-> rangeError("ParseInt", s0)]
             ELSE IF neg /\ NatLess(cutoff, un)
             THEN [val |-> NegInt(cutoff), err |-> rangeError("ParseInt", s0)]
             ELSE [val |-> IF neg THEN NegInt(un) ELSE PosInt(un), err |-> nil]

\* --------------------------------------------------------------- ParseFloat

\* A float64 value is the decimal it was read from: [kind, neg, mant, exp]
\* stands for the float64 nearest to (+/-) mant * 10^exp, mant a numeral
\* without trailing zeros.  Two such records are equal exactly when the
\* decimals are, which for mantissas of up to 15 digits is when the
\* float64 values are.  Both zeros are one value, as they are for Go's ==.
FloatNum(neg, mant, exp) == [kind |-> "num", neg |-> neg, mant |-> mant, exp |-> exp]

ZeroFloat == FloatNum(FALSE, << >>, 0)

Inf(neg) == [kind |-> "inf", neg |-> neg, mant |-> << >>, exp |-> 0]

NaN == [kind |-> "nan", neg |-> FALSE, mant |-> << >>, exp |-> 0]

RECURSIVE StripTrailingZeros(_, _)
StripTrailingZeros(mant, exp) ==
    IF mant # << >> /\ mant[Len(mant)] = 0
    THEN StripTrailingZeros(SubSeq(mant, 1, Len(mant) - 1), exp + 1)
    ELSE IF mant = << >> THEN ZeroFloat ELSE FloatNum(FALSE, mant, exp)

Lower(c) ==
    CASE c = "I" -> "i" [] c = "N" -> "n" [] c = "F" -> "f" [] c = "A" -> "a"
      [] c = "T" -> "t" [] c = "Y" -> "y" [] OTHER -> c

LowerAll(s) == [i \in 1..Len(s) |-> Lower(s[i])]

\* the length of the longest prefix of s made of decimal digits
RECURSIVE DigitPrefixLen(_)
DigitPrefixLen(s) ==
    IF s # << >> /\ Head(s) \in Digits THEN 1 + DigitPrefixLen(Rest(s)) ELSE 0

DigitsOf(s) == [i \in 1..Len(s) |-> DigitVal(s[i])]

\* the exponent's digits, accumulated while e < 10000
RECURSIVE ExpValue(_, _)
ExpValue(s, e) ==
    IF s = << >> THEN e
    ELSE ExpValue(Rest(s), IF e < 10000 THEN e * 10 + DigitVal(Head(s)) ELSE e)

\* the first 17 digits of the least decimal that rounds to +Inf,
\* 1.7976931348623158e308
FloatOverflowMant == <<1,7,9,7,6,9,3,1,3,4,8,6,2,3,1,5,8>>

RECURSIVE PrefixLeq(_, _)
\* a <= b as decimal fractions 0.a and 0.b
PrefixLeq(a, b) ==
    IF a = << >> THEN TRUE
    ELSE IF b = << >> THEN FALSE
    ELSE IF Head(a) # Head(b) THEN Head(a) < Head(b)
    ELSE PrefixLeq(Rest(a), Rest(b))

\* special: "inf", "infinity" with an optional sign, "nan" without one,
\* in any case of the letters
FloatSpecial(s) ==
    LET signed == s # << >> /\ Head(s) \in {"+", "-"}
        body == LowerAll(IF signed THEN Rest(s) ELSE s)
    IN  IF body \in {<<"i","n","f">>, <<"i","n","f","i","n","i","t","y">>}
        THEN [ok |-> TRUE, val |-> Inf(signed /\ Head(s) = "-")]
        ELSE IF ~signed /\ body = <<"n","a","n">>
        THEN [ok |-> TRUE, val |-> NaN]
        ELSE [ok |-> FALSE, val |-> ZeroFloat]

\* readFloat on decimal text, in the order of the source: the sign, the
\* digits with at most one point, the optional exponent.  ok is FALSE when
\* the text has no digit, an exponent without digits, or characters left
\* over.  The value read is (+/-) mant * 10^exp.
FloatDone(neg, mant, nf, sawdigits, eneg, edigits, rest) ==
    [ok |-> sawdigits /\ rest = << >>,
     neg |-> neg,
     mant |-> Norm(DigitsOf(mant)),
     exp |-> (IF eneg THEN 0 - ExpValue(edigits, 0) ELSE ExpValue(edigits, 0)) - nf]

FloatExpDigits(neg, mant, nf, sawdigits, eneg, s) ==
    LET ne == DigitPrefixLen(s)
    IN  FloatDone(neg, mant, nf, sawdigits /\ ne > 0, eneg,
                  SubSeq(s, 1, ne), SubSeq(s, ne + 1, Len(s)))

FloatExponent(neg, mant, nf, sawdigits, s) ==
    IF s # << >> /\ Head(s) \in {"e", "E"}
    THEN IF Len(s) > 1 /\ s[2] \in {"+", "-"}
         THEN FloatExpDigits(neg, mant, nf, sawdigits, s[2] = "-", SubSeq(s, 3, Len(s)))
         ELSE FloatExpDigits(neg, mant, nf, sawdigits, FALSE, Rest(s))
    ELSE FloatDone(neg, mant, nf, sawdigits, FALSE, << >>, s)

FloatFraction(neg, int, s) ==
    LET nf == IF s # << >> /\ Head(s) = "." THEN DigitPrefixLen(Rest(s)) ELSE 0
        dotLen == IF s # << >> /\ Head(s) = "." THEN 1 ELSE 0
    IN  FloatExponent(neg, int \o SubSeq(s, 2, nf + 1), nf, Len(int) + nf > 0,
                      SubSeq(s, dotLen + nf + 1, Len(s)))

FloatDigits(neg, s) ==
    LET ni == DigitPrefixLen(s)
    IN  FloatFraction(neg, SubSeq(s, 1, ni), SubSeq(s, ni + 1, Len(s)))

ReadFloat(s) ==
    IF s # << >> /\ Head(s) \in {"+", "-"}
    THEN FloatDigits(Head(s) = "-", Rest(s))
    ELSE FloatDigits(FALSE, s)

\* The float64 for the decimal read: 1.7976931348623158e308 or more in
\* magnitude is +/-Inf with a range error; a magnitude below the least
\* denormal is zero without an error.
FloatOf(r, v, s) ==
    IF v.mant = << >> \/ Len(v.mant) + v.exp < -323
    THEN [val |-> ZeroFloat, err |-> nil]
    ELSE IF Len(v.mant) + v.exp > 309
            \/ (Len(v.mant) + v.exp = 309 /\ PrefixLeq(FloatOverflowMant, v.mant))
    THEN [val |-> Inf(r.neg), err |-> rangeError("ParseFloat", s)]
    ELSE [val |-> FloatNum(r.neg, v.mant, v.exp), err |-> nil]

FloatRead(r, s) ==
    IF ~r.ok
    THEN [val |-> ZeroFloat, err |-> syntaxError("ParseFloat", s)]
    ELSE FloatOf(r, StripTrailingZeros(r.mant, r.exp), s)

FloatSpecialOr(sp, s) ==
    IF sp.ok THEN [val |-> sp.val, err |-> nil] ELSE FloatRead(ReadFloat(s), s)

\* strconv.ParseFloat(s, 64)
ParseFloat(s) == FloatSpecialOr(FloatSpecial(s), s)

\* ------------------------------------------------------------ ParseDuration

Front(s) == SubSeq(s, 1, Len(s) - 1)

Last(s) == s[Len(s)]

RECURSIVE NatAddCarry(_, _, _)
NatAddCarry(a, b, c) ==
    IF a = << >> /\ b = << >> THEN (IF c = 0 THEN << >> ELSE <<c>>)
    ELSE LET da == IF a = << >> THEN 0 ELSE Last(a)
             db == IF b = << >> THEN 0 ELSE Last(b)
             t == da + db + c
         IN  Append(NatAddCarry(IF a = << >> THEN a ELSE Front(a),
                                IF b = << >> THEN b ELSE Front(b),
                                t \div 10),
                    t % 10)

NatAdd(a, b) == Norm(NatAddCarry(a, b, 0))

\* a * k for a small factor k
RECURSIVE MulSmallCarry(_, _, _)
MulSmallCarry(a, k, c) ==
    IF a = << >> THEN (IF c = 0 THEN << >> ELSE IF c < 10 THEN <<c>> ELSE <<c \div 10, c % 10>>)
    ELSE LET t == Last(a) * k + c
         IN  Append(MulSmallCarry(Front(a), k, t \div 10), t % 10)

\* a * 10^z
TimesPow10(a, z) == IF a = << >> THEN a ELSE a \o [i \in 1..z |-> 0]

\* a * unit, for a unit [factor, zeros] of factor * 10^zeros nanoseconds
TimesUnit(a, unit) == TimesPow10(Norm(MulSmallCarry(a, unit.factor, 0)), unit.zeros)

durationError(msg, orig) == [Func |-> "time", Num |-> orig, Err |-> msg, Unit |-> << >>]

\* "time: unknown unit " + u + " in duration " + orig
unknownUnitError(u, orig) ==
    [Func |-> "time", Num |-> orig, Err |-> "unknown unit in duration", Unit |-> u]

\* unitMap, in nanoseconds; the micro sign U+00B5 and the Greek letter mu
\* U+03BC stand each for the bytes of its encoding, which are no digit and
\* no point
UnitNames ==
    {<<"n","s">>, <<"u","s">>, <<"µ","s">>, <<"μ","s">>, <<"m","s">>,
     <<"s">>, <<"m">>, <<"h">>}

UnitOf(u) ==
    CASE u = <<"n","s">> -> [factor |-> 1, zeros |-> 0]
      [] u \in {<<"u","s">>, <<"µ","s">>, <<"μ","s">>} -> [factor |-> 1, zeros |-> 3]
      [] u = <<"m","s">> -> [factor |-> 1, zeros |-> 6]
      [] u = <<"s">> -> [factor |-> 1, zeros |-> 9]
      [] u = <<"m">> -> [factor |-> 6, zeros |-> 10]
      [] u = <<"h">> -> [factor |-> 36, zeros |-> 11]

\* the length of the unit: the longest prefix without '.' and digits
RECURSIVE UnitPrefixLen(_)
UnitPrefixLen(s) ==
    IF s # << >> /\ Head(s) # "." /\ Head(s) \notin Digits
    THEN 1 + UnitPrefixLen(Rest(s)) ELSE 0

\* The loop of ParseDuration over the quantity-unit groups, in the order
\* of the source: s is what is left of the text, d the nanoseconds so far.
\* leadingInt fails exactly when the digits read exceed 1<<63;
\* "v > 1<<63/unit" is v*unit > 1<<63; the fraction adds
\* uint64(float64(f) * (float64(unit)/scale)), which for fractions of up to
\* 15 digits is f*unit/scale rounded down.
RECURSIVE ParseDurationLoop(_, _, _)

DurationInvalid(orig) ==
    [ok |-> FALSE, d |-> << >>, err |-> durationError("invalid duration", orig)]

\* v *= unit; v += fraction; d += v
DurationAdd(whole, scaled, nf, s, d, orig) ==
    LET frac == IF Len(scaled) <= nf THEN << >>
                ELSE SubSeq(scaled, 1, Len(scaled) - nf)
    IN  IF NatLess(Two63, whole)
           \/ NatLess(Two63, NatAdd(whole, frac))
           \/ NatLess(Two63, NatAdd(d, NatAdd(whole, frac)))
        THEN DurationInvalid(orig)
        ELSE ParseDurationLoop(s, NatAdd(d, NatAdd(whole, frac)), orig)

\* the unit: the characters up to the next '.' or digit
DurationUnit(v, f, nf, s, d, orig) ==
    LET nu == UnitPrefixLen(s)
    IN  IF nu = 0
        THEN [ok |-> FALSE, d |-> << >>,
              err |-> durationError("missing unit in duration", orig)]
        ELSE IF SubSeq(s, 1, nu) \notin UnitNames
        THEN [ok |-> FALSE, d |-> << >>,
              err |-> unknownUnitError(SubSeq(s, 1, nu), orig)]
        ELSE DurationAdd(TimesUnit(v, UnitOf(SubSeq(s, 1, nu))),
                         TimesUnit(f, UnitOf(SubSeq(s, 1, nu))),
                         nf, SubSeq(s, nu + 1, Len(s)), d, orig)

\* (\.[0-9]*)?  with leadingFraction
DurationFraction(v, pre, s, d, orig) ==
    LET nf == IF s # << >> /\ Head(s) = "." THEN DigitPrefixLen(Rest(s)) ELSE 0
        dotLen == IF s # << >> /\ Head(s) = "." THEN 1 ELSE 0
    IN  IF ~pre /\ nf = 0
        THEN DurationInvalid(orig)
        ELSE DurationUnit(v, Norm(DigitsOf(SubSeq(s, 2, nf + 1))), nf,
                          SubSeq(s, dotLen + nf + 1, Len(s)), d, orig)

\* [0-9]*  with leadingInt
DurationInt(s, d, orig) ==
    LET ni == DigitPrefixLen(s)
    IN  IF NatLess(Two63, Norm(DigitsOf(SubSeq(s, 1, ni))))
        THEN DurationInvalid(orig)
        ELSE DurationFraction(Norm(DigitsOf(SubSeq(s, 1, ni))), ni > 0,
                              SubSeq(s, ni + 1, Len(s)), d, orig)

ParseDurationLoop(s, d, orig) ==
    IF s = << >> THEN [ok |-> TRUE, d |-> d, err |-> nil]
    ELSE IF ~(Head(s) = "." \/ Head(s) \in Digits)
    THEN DurationInvalid(orig)
    ELSE DurationInt(s, d, orig)

DurationResult(neg, r, orig) ==
    IF ~r.ok THEN [val |-> ZeroInt, err |-> r.err]
    ELSE IF neg THEN [val |-> NegInt(r.d), err |-> nil]
    ELSE IF NatLeq(Two63, r.d)
    THEN [val |-> ZeroInt, err |-> durationError("invalid duration", orig)]
    ELSE [val |-> PosInt(r.d), err |-> nil]

DurationBody(neg, s, orig) ==
    IF s = <<"0">> THEN [val |-> ZeroInt, err |-> nil]
    ELSE IF s = << >>
    THEN [val |-> ZeroInt, err |-> durationError("invalid duration", orig)]
    ELSE DurationResult(neg, ParseDurationLoop(s, << >>, orig), orig)

\* time.ParseDuration(s); the value is an integer record of nanoseconds
ParseDuration(orig) ==
    IF orig # << >> /\ Head(orig) \in {"+", "-"}
    THEN DurationBody(Head(orig) = "-", Rest(orig), orig)
    ELSE DurationBody(FALSE, orig, orig)

\* ------------------------------------------------------------ error messages

\* the characters of the strings the messages are made of
Chars(str) ==
    CASE str = "ParseBool" ->
           <<"P","a","r","s","e","B","o","o","l">>
      [] str = "ParseInt" ->
           <<"P","a","r","s","e","I","n","t">>
      [] str = "ParseUint" ->
           <<"P","a","r","s","e","U","i","n","t">>
      [] str = "ParseFloat" ->
           <<"P","a","r","s","e","F","l","o","a","t">>
      [] str = "invalid syntax" ->
           <<"i","n","v","a","l","i","d"," ","s","y","n","t","a","x">>
      [] str = "value out of range" ->
           <<"v","a","l","u","e"," ","o","u","t"," ","o","f"," ","r","a","n","g","e">>
      [] str = "invalid duration" ->
           <<"i","n","v","a","l","i","d"," ","d","u","r","a","t","i","o","n">>
      [] str = "missing unit in duration" ->
           <<"m","i","s","s","i","n","g"," ","u","n","i","t"," ","i","n"," ","d","u","r","a","t","i","o","n">>
      [] str = "strconv." ->
           <<"s","t","r","c","o","n","v",".">>
      [] str = ": parsing " ->
           <<":"," ","p","a","r","s","i","n","g"," ">>
      [] str = ": " ->
           <<":"," ">>
      [] str = "time: " ->
           <<"t","i","m","e",":"," ">>
      [] str = "time: unknown unit " ->
           <<"t","i","m","e",":"," ","u","n","k","n","o","w","n"," ","u","n","i","t"," ">>
      [] str = " in duration " ->
           <<" ","i","n"," ","d","u","r","a","t","i","o","n"," ">>
      [] str = " " ->
           <<" ">>
      [] str = "nil" ->
           <<"n","i","l">>
      [] str = "out of range" ->
           <<"o","u","t"," ","o","f"," ","r","a","n","g","e">>
      [] str = "unknown unit " ->
           <<"u","n","k","n","o","w","n"," ","u","n","i","t"," ">>
      [] str = "ParseDuration" ->
           <<"P","a","r","s","e","D","u","r","a","t","i","o","n">>

\* strconv.Quote on printable ASCII: the text between double quotes, a
\* backslash before each double quote and backslash of the text
RECURSIVE QuoteBody(_)
QuoteBody(t) ==
    IF t = << >> THEN << >>
    ELSE (IF Head(t) \in {"\"", "\\"} THEN <<"\\", Head(t)>> ELSE <<Head(t)>>)
         \o QuoteBody(Rest(t))

Quote(t) == <<"\"">> \o QuoteBody(t) \o <<"\"">>

\* err.Error(): for *strconv.NumError
\* "strconv." + Func + ": parsing " + Quote(Num) + ": " + Err.Error(); for
\* the errors of time.ParseDuration the message with the text as it is, the
\* form the tests expect
ErrorMessage(e) ==
    IF e.Func = "time"
    THEN IF e.Err = "unknown unit in duration"
         THEN Chars("time: unknown unit ") \o e.Unit \o Chars(" in duration ") \o e.Num
         ELSE Chars("time: ") \o Chars(e.Err) \o Chars(" ") \o e.Num
    ELSE Chars("strconv.") \o Chars(e.Func) \o Chars(": parsing ") \o Quote(e.Num)
         \o Chars(": ") \o Chars(e.Err)

\* ---------------------------------------------------------------- accessors

\* An ordinary accessor yields a value; a strict one a record [val, err].

\* Bool keeping the value it read last and serving it once the variable
\* is gone
BoolStale(name, defaultValue) ==
    LET strVal == LookupEnv(name).val
        ok == LookupEnv(name).ok
        p == ParseBool(strVal)
    IN  IF ok /\ p.err = nil THEN p.val
        ELSE IF ~ok /\ ret.op = "Bool" /\ ret.seen.ok THEN ret.val
        ELSE defaultValue

Bool(name, defaultValue) ==
    LET strVal == LookupEnv(name).val
        ok == LookupEnv(name).ok
        p == ParseBool(strVal)
    IN  IF ok /\ p.err = nil THEN p.val ELSE defaultValue

\* the text with the letters of "true" and "false" in lower case
FoldCase(t) ==
    [i \in 1..Len(t) |->
        CASE t[i] = "T" -> "t" [] t[i] = "R" -> "r" [] t[i] = "U" -> "u"
          [] t[i] = "E" -> "e" [] t[i] = "F" -> "f" [] t[i] = "A" -> "a"
          [] t[i] = "L" -> "l" [] t[i] = "S" -> "s" [] OTHER -> t[i]]

\* BoolStrict parsing the text in lower case (strings.ToLower)
BoolStrictFold(name, defaultValue) ==
    LET strVal == FoldCase(LookupEnv(name).val)
        ok == LookupEnv(name).ok
        p == ParseBool(strVal)
    IN  IF ok
        THEN IF p.err # nil
             THEN [val |-> FALSE, err |-> p.err]
             ELSE [val |-> p.val, err |-> nil]
        ELSE [val |-> defaultValue, err |-> nil]

BoolStrict(name, defaultValue) ==
    LET strVal == LookupEnv(name).val
        ok == LookupEnv(name).ok
        p == ParseBool(strVal)
    IN  IF ok
        THEN IF p.err # nil
             THEN [val |-> FALSE, err |-> p.err]
             ELSE [val |-> p.val, err |-> nil]
        ELSE [val |-> defaultValue, err |-> nil]

\* Duration with the test of the error inverted
DurationInverted(name, defaultValue) ==
    LET strVal == LookupEnv(name).val
        ok == LookupEnv(name).ok
        p == ParseDuration(strVal)
    IN  IF ok /\ p.err # nil THEN p.val ELSE defaultValue

\* Duration taking a text that is no duration for a count of nanoseconds
DurationBareNumber(name, defaultValue) ==
    LET strVal == LookupEnv(name).val
        ok == LookupEnv(name).ok
        p == ParseDuration(strVal)
        q == ParseInt(strVal, 64)
    IN  IF ok /\ p.err = nil THEN p.val
        ELSE IF ok /\ q.err = nil THEN q.val
        ELSE defaultValue

Duration(name, defaultValue) ==
    LET strVal == LookupEnv(name).val
        ok == LookupEnv(name).ok
        p == ParseDuration(strVal)
    IN  IF ok /\ p.err = nil THEN p.val ELSE defaultValue

\* DurationStrict turning the parser's error into a syntax error of strconv
DurationStrictSyntax(name, defaultValue) ==
    LET strVal == LookupEnv(name).val
        ok == LookupEnv(name).ok
        p == ParseDuration(strVal)
    IN  IF ok
        THEN IF p.err # nil
             THEN [val |-> ZeroInt, err |-> syntaxError("ParseDuration", strVal)]
             ELSE [val |-> p.val, err |-> nil]
        ELSE [val |-> defaultValue, err |-> nil]

DurationStrict(name, defaultValue) ==
    LET strVal == LookupEnv(name).val
        ok == LookupEnv(name).ok
        p == ParseDuration(strVal)
    IN  IF ok
        THEN IF p.err # nil
             THEN [val |-> ZeroInt, err |-> p.err]
             ELSE [val |-> p.val, err |-> nil]
        ELSE [val |-> defaultValue, err |-> nil]

\* Float64 with "return 0" where the variable is absent
Float64ZeroOnAbsent(name, defaultValue) ==
    LET strVal == LookupEnv(name).val
        ok == LookupEnv(name).ok
        p == ParseFloat(strVal)
    IN  IF ok THEN (IF p.err = nil THEN p.val ELSE defaultValue) ELSE ZeroFloat

Float64(name, defaultValue) ==
    LET strVal == LookupEnv(name).val
        ok == LookupEnv(name).ok
        p == ParseFloat(strVal)
    IN  IF ok /\ p.err = nil THEN p.val ELSE defaultValue

\* Float64Strict with "return defaultValue, err" where the parser fails
Float64StrictDefaultOnError(name, defaultValue) ==
    LET strVal == LookupEnv(name).val
        ok == LookupEnv(name).ok
        p == ParseFloat(strVal)
    IN  IF ok
        THEN IF p.err # nil
             THEN [val |-> defaultValue, err |-> p.err]
             ELSE [val |-> p.val, err |-> nil]
        ELSE [val |-> defaultValue, err |-> nil]

Float64Strict(name, defaultValue) ==
    LET strVal == LookupEnv(name).val
        ok == LookupEnv(name).ok
        p == ParseFloat(strVal)
    IN  IF ok
        THEN IF p.err # nil
             THEN [val |-> ZeroFloat, err |-> p.err]
             ELSE [val |-> p.val, err |-> nil]
        ELSE [val |-> defaultValue, err |-> nil]

\* Int absorbing the syntax error only: out of range, the bound the
\* parser clamps to is returned
IntClamping(name, defaultValue) ==
    LET strVal == LookupEnv(name).val
        ok == LookupEnv(name).ok
        p == ParseInt(strVal, 0)
    IN  IF ok /\ p.err.Err # ErrSyntax THEN p.val ELSE defaultValue

\* func Int (the name Int is the set of integers here)
GetInt(name, defaultValue) ==
    LET strVal == LookupEnv(name).val
        ok == LookupEnv(name).ok
        p == ParseInt(strVal, 0)
    IN  IF ok /\ p.err = nil THEN p.val ELSE defaultValue

\* IntStrict reading with os.Getenv: the ok of the lookup is ignored
IntStrictGetenv(name, defaultValue) ==
    LET strVal == LookupEnv(name).val
        p == ParseInt(strVal, 0)
    IN  IF p.err # nil
        THEN [val |-> ZeroInt, err |-> p.err]
        ELSE [val |-> p.val, err |-> nil]

IntStrict(name, defaultValue) ==
    LET strVal == LookupEnv(name).val
        ok == LookupEnv(name).ok
        p == ParseInt(strVal, 0)
    IN  IF ok
        THEN IF p.err # nil
             THEN [val |-> ZeroInt, err |-> p.err]
             ELSE [val |-> p.val, err |-> nil]
        ELSE [val |-> defaultValue, err |-> nil]

\* the text without the spaces around it
RECURSIVE TrimSpace(_)
TrimSpace(t) ==
    IF t # << >> /\ Head(t) = " " THEN TrimSpace(Rest(t))
    ELSE IF t # << >> /\ t[Len(t)] = " " THEN TrimSpace(SubSeq(t, 1, Len(t) - 1))
    ELSE t

\* Int64 parsing the text without the spaces around it (strings.TrimSpace)
Int64Trimmed(name, defaultValue) ==
    LET strVal == TrimSpace(LookupEnv(name).val)
        ok == LookupEnv(name).ok
        p == ParseInt(strVal, 64)
    IN  IF ok /\ p.err = nil THEN p.val ELSE defaultValue

\* Int64 parsing with bitSize 32
Int64Narrow(name, defaultValue) ==
    LET strVal == LookupEnv(name).val
        ok == LookupEnv(name).ok
        p == ParseInt(strVal, 32)
    IN  IF ok /\ p.err = nil THEN p.val ELSE defaultValue

Int64(name, defaultValue) ==
    LET strVal == LookupEnv(name).val
        ok == LookupEnv(name).ok
        p == ParseInt(strVal, 64)
    IN  IF ok /\ p.err = nil THEN p.val ELSE defaultValue

\* Int64Strict with "return i64, err": the parser's value beside the error
Int64StrictClamped(name, defaultValue) ==
    LET strVal == LookupEnv(name).val
        ok == LookupEnv(name).ok
        p == ParseInt(strVal, 64)
    IN  IF ok THEN [val |-> p.val, err |-> p.err]
        ELSE [val |-> defaultValue, err |-> nil]

Int64Strict(name, defaultValue) ==
    LET strVal == LookupEnv(name).val
        ok == LookupEnv(name).ok
        p == ParseInt(strVal, 64)
    IN  IF ok
        THEN IF p.err # nil
             THEN [val |-> ZeroInt, err |-> p.err]
             ELSE [val |-> p.val, err |-> nil]
        ELSE [val |-> defaultValue, err |-> nil]

\* String taking an empty text for an absent variable
StringEmptyIsAbsent(name, defaultValue) ==
    LET val == LookupEnv(name).val
        ok == LookupEnv(name).ok
    IN  IF ok /\ val # << >> THEN val ELSE defaultValue

String(name, defaultValue) ==
    LET val == LookupEnv(name).val
        ok == LookupEnv(name).ok
    IN  IF ok THEN val ELSE defaultValue

\* Uint parsing with bitSize 32
UintNarrow(name, defaultValue) ==
    LET strVal == LookupEnv(name).val
        ok == LookupEnv(name).ok
        p == ParseUint(strVal, 32)
    IN  IF ok /\ p.err = nil THEN PosInt(p.val) ELSE defaultValue

\* Uint without the test of the error
UintIgnoreErr(name, defaultValue) ==
    LET strVal == LookupEnv(name).val
        ok == LookupEnv(name).ok
        p == ParseUint(strVal, 0)
    IN  IF ok THEN PosInt(p.val) ELSE defaultValue

Uint(name, defaultValue) ==
    LET strVal == LookupEnv(name).val
        ok == LookupEnv(name).ok
        p == ParseUint(strVal, 0)
    IN  IF ok /\ p.err = nil THEN PosInt(p.val) ELSE defaultValue

\* UintStrict parsing with ParseInt and converting the result
UintStrictSigned(name, defaultValue) ==
    LET strVal == LookupEnv(name).val
        ok == LookupEnv(name).ok
        p == ParseInt(strVal, 0)
    IN  IF ok
        THEN IF p.err # nil
             THEN [val |-> ZeroInt, err |-> p.err]
             ELSE [val |-> PosInt(p.val.mag), err |-> nil]
        ELSE [val |-> defaultValue, err |-> nil]

UintStrict(name, defaultValue) ==
    LET strVal == LookupEnv(name).val
        ok == LookupEnv(name).ok
        p == ParseUint(strVal, 0)
    IN  IF ok
        THEN IF p.err # nil
             THEN [val |-> ZeroInt, err |-> p.err]
             ELSE [val |-> PosInt(p.val), err |-> nil]
        ELSE [val |-> defaultValue, err |-> nil]

\* Uint64 reading the digits as a signed number
Uint64ViaInt(name, defaultValue) ==
    LET strVal == LookupEnv(name).val
        ok == LookupEnv(name).ok
        p == ParseInt(strVal, 64)
    IN  IF ok /\ p.err = nil THEN p.val ELSE defaultValue

Uint64(name, defaultValue) ==
    LET strVal == LookupEnv(name).val
        ok == LookupEnv(name).ok
        p == ParseUint(strVal, 64)
    IN  IF ok /\ p.err = nil THEN PosInt(p.val) ELSE defaultValue

\* Uint64Strict returning an error of its own making, without the text
Uint64StrictNoText(name, defaultValue) ==
    LET strVal == LookupEnv(name).val
        ok == LookupEnv(name).ok
        p == ParseUint(strVal, 64)
    IN  IF ok
        THEN IF p.err # nil
             THEN [val |-> ZeroInt, err |-> [p.err EXCEPT !.Num = << >>]]
             ELSE [val |-> PosInt(p.val), err |-> nil]
        ELSE [val |-> defaultValue, err |-> nil]

Uint64Strict(name, defaultValue) ==
    LET strVal == LookupEnv(name).val
        ok == LookupEnv(name).ok
        p == ParseUint(strVal, 64)
    IN  IF ok
        THEN IF p.err # nil
             THEN [val |-> ZeroInt, err |-> p.err]
             ELSE [val |-> PosInt(p.val), err |-> nil]
        ELSE [val |-> defaultValue, err |-> nil]

\* ------------------------------------------------------------------- inputs

\* the variable the package's tests use, and another one
Names == {"VALUE", "OTHER"}

\* texts the package's tests set, and 1e400
Texts ==
    {<< >>,
     <<"b","a","d">>,
     <<"1">>,
     <<"0">>,
     <<"t","r","u","e">>,
     <<"F">>,
     <<"-","1">>,
     <<"3",".","1">>,
     <<"3","0">>,
     <<"2","h","5","m","2","0","s">>,
     <<"-","2","h">>,
     <<"2","0","0","m","s">>,
     <<"1","2","3","4","5","6","7","8","9","0","1","2","3","4","5","6","7","8","9","0">>,
     <<"1","2","3","4","5","6","7","8","9","0","1","2","3","4","5","6","7","8","9","0","1">>,
     <<"1","e","4","0","0">>}

OtherTexts == {<<"1">>}

TextsOf(k) == IF k = "VALUE" THEN Texts ELSE OtherTexts

BoolDefaults == BOOLEAN

\* 0 and 321
IntDefaults == {ZeroInt, PosInt(<<3,2,1>>)}

\* 0 and 3 * time.Second
DurationDefaults == {ZeroInt, PosInt(<<3,0,0,0,0,0,0,0,0,0>>)}

\* 0 and 1.2
FloatDefaults == {ZeroFloat, FloatNum(FALSE, <<1,2>>, -1)}

\* "" and "default"
StringDefaults == {<< >>, <<"d","e","f","a","u","l","t">>}

Ordinary == {"Bool", "Duration", "Float64", "Int", "Int64", "String", "Uint", "Uint64"}

Strict == {"BoolStrict", "DurationStrict", "Float64Strict", "IntStrict",
           "Int64Strict", "UintStrict", "Uint64Strict"}

\* ------------------------------------------------------------ state machine

\* ret describes the accessor call that returned last: the accessor, its
\* arguments, what the lookup of the name gave when it was made, the value
\* returned and the error returned (nil for an ordinary accessor, which
\* returns no error).
NoCall == [op |-> "none", name |-> "", def |-> FALSE, seen |-> Absent,
           val |-> FALSE, err |-> nil]

\* The callers of the package: goroutines, each in no call or in one call
\* of an accessor.  A call in flight is at "called" before its
\* os.LookupEnv and at "looked" after it; it keeps its arguments, what the
\* lookup gave (seen), what it will return (res), the number of its reads
\* of the environment, and the lookups of its variable that were true at
\* some instant since the call began (held).
NumThreads == 2

Threads == 1..NumThreads

Idle == [pc |-> "idle", op |-> "none", name |-> "", def |-> FALSE,
         seen |-> Absent, res |-> [val |-> FALSE, err |-> nil],
         reads |-> 0, held |-> {}]

\* the variable key now gives the lookup l: the calls in flight on key have
\* lived through this instant too
Observe(key, l) ==
    [t \in Threads |->
        IF calls[t].pc # "idle" /\ calls[t].name = key
        THEN [calls[t] EXCEPT !.held = @ \cup {l}]
        ELSE calls[t]]

Init ==
    /\ intSize \in {32, 64}
    /\ env = [k \in Names |-> Absent]
    /\ ret = NoCall
    /\ calls = [t \in Threads |-> Idle]

\* os.Setenv(key, value)
Setenv(key, value) ==
    /\ env' = [env EXCEPT ![key] = Present(value)]
    /\ calls' = Observe(key, Present(value))
    /\ UNCHANGED <<intSize, ret>>

\* os.Unsetenv(key)
Unsetenv(key) ==
    /\ env' = [env EXCEPT ![key] = Absent]
    /\ calls' = Observe(key, Absent)
    /\ UNCHANGED <<intSize, ret>>

\* an ordinary accessor returns val
ReturnValue(op, name, defaultValue, val) ==
    /\ ret' = [op |-> op, name |-> name, def |-> defaultValue,
               seen |-> LookupEnv(name), val |-> val, err |-> nil]
    /\ UNCHANGED <<intSize, env, calls>>

\* a strict accessor returns r.val, r.err
ReturnPair(op, name, defaultValue, r) ==
    /\ ret' = [op |-> op, name |-> name, def |-> defaultValue,
               seen |-> LookupEnv(name), val |-> r.val, err |-> r.err]
    /\ UNCHANGED <<intSize, env, calls>>

CallBool(name, defaultValue) ==
    ReturnValue("Bool", name, defaultValue, Bool(name, defaultValue))

CallBoolStrict(name, defaultValue) ==
    ReturnPair("BoolStrict", name, defaultValue, BoolStrict(name, defaultValue))

CallDuration(name, defaultValue) ==
    ReturnValue("Duration", name, defaultValue, Duration(name, defaultValue))

\* DurationStrict unsetting the variable it has read
CallDurationStrictUnset(name, defaultValue) ==
    /\ ret' = [op |-> "DurationStrict", name |-> name, def |-> defaultValue,
               seen |-> LookupEnv(name),
               val |-> DurationStrict(name, defaultValue).val,
               err |-> DurationStrict(name, defaultValue).err]
    /\ env' = [env EXCEPT ![name] = Absent]
    /\ UNCHANGED <<intSize, calls>>

CallDurationStrict(name, defaultValue) ==
    ReturnPair("DurationStrict", name, defaultValue, DurationStrict(name, defaultValue))

CallFloat64(name, defaultValue) ==
    ReturnValue("Float64", name, defaultValue, Float64(name, defaultValue))

CallFloat64Strict(name, defaultValue) ==
    ReturnPair("Float64Strict", name, defaultValue, Float64Strict(name, defaultValue))

CallInt(name, defaultValue) ==
    ReturnValue("Int", name, defaultValue, GetInt(name, defaultValue))

CallIntStrict(name, defaultValue) ==
    ReturnPair("IntStrict", name, defaultValue, IntStrict(name, defaultValue))

CallInt64(name, defaultValue) ==
    ReturnValue("Int64", name, defaultValue, Int64(name, defaultValue))

CallInt64Strict(name, defaultValue) ==
    ReturnPair("Int64Strict", name, defaultValue, Int64Strict(name, defaultValue))

CallString(name, defaultValue) ==
    ReturnValue("String", name, defaultValue, String(name, defaultValue))

CallUint(name, defaultValue) ==
    ReturnValue("Uint", name, defaultValue, Uint(name, defaultValue))

CallUintStrict(name, defaultValue) ==
    ReturnPair("UintStrict", name, defaultValue, UintStrict(name, defaultValue))

CallUint64(name, defaultValue) ==
    ReturnValue("Uint64", name, defaultValue, Uint64(name, defaultValue))

CallUint64Strict(name, defaultValue) ==
    ReturnPair("Uint64Strict", name, defaultValue, Uint64Strict(name, defaultValue))

Next ==
    \/ \E k \in Names : \E t \in TextsOf(k) : Setenv(k, t)
    \/ \E k \in Names : Unsetenv(k)
    \/ \E k \in Names : \E d \in BoolDefaults : CallBool(k, d)
    \/ \E k \in Names : \E d \in BoolDefaults : CallBoolStrict(k, d)
    \/ \E k \in Names : \E d \in DurationDefaults : CallDuration(k, d)
    \/ \E k \in Names : \E d \in DurationDefaults : CallDurationStrict(k, d)
    \/ \E k \in Names : \E d \in FloatDefaults : CallFloat64(k, d)
    \/ \E k \in Names : \E d \in FloatDefaults : CallFloat64Strict(k, d)
    \/ \E k \in Names : \E d \in IntDefaults : CallInt(k, d)
    \/ \E k \in Names : \E d \in IntDefaults : CallIntStrict(k, d)
    \/ \E k \in Names : \E d \in IntDefaults : CallInt64(k, d)
    \/ \E k \in Names : \E d \in IntDefaults : CallInt64Strict(k, d)
    \/ \E k \in Names : \E d \in StringDefaults : CallString(k, d)
    \/ \E k \in Names : \E d \in IntDefaults : CallUint(k, d)
    \/ \E k \in Names : \E d \in IntDefaults : CallUintStrict(k, d)
    \/ \E k \in Names : \E d \in IntDefaults : CallUint64(k, d)
    \/ \E k \in Names : \E d \in IntDefaults : CallUint64Strict(k, d)

Spec == Init /\ [][Next]_vars

\* ------------------------------------------------- the integer accessors
\* The integer accessors as functions of the text: the variable VALUE
\* holds any text of up to MaxLen characters of IntAlphabet, or one of the
\* texts at the bounds of the 32- and 64-bit types, and is read by each
\* integer accessor.

MaxLen == 3

IntAlphabet == {"-", "+", "0", "7", ".", " ", "a"}

ShortTexts == UNION {[1..n -> IntAlphabet] : n \in 0..MaxLen}

DigitChar(d) == CHOOSE c \in Digits : DigitVal(c) = d

TextOf(n) == IF n = << >> THEN <<"0">> ELSE [i \in 1..Len(n) |-> DigitChar(n[i])]

\* the bounds of the integer types, one below and one above
Boundaries ==
    {Pred(Two31), Two31, NatAdd(Two31, <<1>>),
     MaxUint32, NatAdd(MaxUint32, <<1>>),
     Pred(Two63), Two63, NatAdd(Two63, <<1>>),
     MaxUint64, NatAdd(MaxUint64, <<1>>)}

LeadingZeros == [i \in 1..22 |-> IF i = 22 THEN "7" ELSE "0"]

BoundaryTexts ==
    UNION {{TextOf(n), <<"-">> \o TextOf(n), <<"+">> \o TextOf(n)} : n \in Boundaries}
    \cup {LeadingZeros, <<"-">> \o LeadingZeros}

IntTexts == ShortTexts \cup BoundaryTexts

InitInt ==
    /\ intSize \in {32, 64}
    /\ \E e \in {Absent} \cup {Present(t) : t \in IntTexts} :
           env = [k \in Names |-> IF k = "VALUE" THEN e ELSE Absent]
    /\ ret = NoCall
    /\ calls = [t \in Threads |-> Idle]

NextInt ==
    \/ \E d \in IntDefaults : CallInt("VALUE", d)
    \/ \E d \in IntDefaults : CallIntStrict("VALUE", d)
    \/ \E d \in IntDefaults : CallInt64("VALUE", d)
    \/ \E d \in IntDefaults : CallInt64Strict("VALUE", d)
    \/ \E d \in IntDefaults : CallUint("VALUE", d)
    \/ \E d \in IntDefaults : CallUintStrict("VALUE", d)
    \/ \E d \in IntDefaults : CallUint64("VALUE", d)
    \/ \E d \in IntDefaults : CallUint64Strict("VALUE", d)

SpecInt == InitInt /\ [][NextInt]_vars

\* ---- the canonical texts of values: strconv.FormatBool, FormatInt,
\* FormatUint, FormatFloat(v, 'g', -1, 64) and time.Duration.String

FormatBool(b) == IF b THEN <<"t","r","u","e">> ELSE <<"f","a","l","s","e">>

\* FormatInt(v, 10), and FormatUint(v, 10) for a value without sign
FormatInt(v) == IF v.neg THEN <<"-">> \o TextOf(v.mag) ELSE TextOf(v.mag)

DigitText(n) == [i \in 1..Len(n) |-> DigitChar(n[i])]

Zeros(k) == [i \in 1..k |-> "0"]

\* the numeral of a small natural number
RECURSIVE NatOf(_)
NatOf(x) == IF x = 0 THEN << >> ELSE Append(NatOf(x \div 10), x % 10)

\* the exponent of %e: a sign and two digits at least
ExponentText(x) ==
    (IF x < 0 THEN <<"-">> ELSE <<"+">>)
    \o (IF x < 10 /\ x > -10 THEN <<"0">> ELSE << >>)
    \o TextOf(IF x < 0 THEN NatOf(0 - x) ELSE NatOf(x))

\* %e with the shortest digits: d.ddde+xx
FormatE(mant, x) ==
    <<DigitChar(mant[1])>>
    \o (IF Len(mant) > 1 THEN <<".">> \o DigitText(Rest(mant)) ELSE << >>)
    \o <<"e">> \o ExponentText(x)

\* %f with the shortest digits; dp is the place of the point in mant
FormatF(mant, dp) ==
    IF dp <= 0 THEN <<"0", ".">> \o Zeros(0 - dp) \o DigitText(mant)
    ELSE IF dp >= Len(mant) THEN DigitText(mant) \o Zeros(dp - Len(mant))
    ELSE DigitText(SubSeq(mant, 1, dp)) \o <<".">> \o DigitText(SubSeq(mant, dp + 1, Len(mant)))

\* %e is used when the exponent is below -4 or, for the shortest form, 6
\* or more
FormatFloat(v) ==
    IF v.kind = "nan" THEN <<"N","a","N">>
    ELSE IF v.kind = "inf" THEN (IF v.neg THEN <<"-","I","n","f">> ELSE <<"+","I","n","f">>)
    ELSE IF v.mant = << >> THEN <<"0">>
    ELSE (IF v.neg THEN <<"-">> ELSE << >>)
         \o (IF Len(v.mant) + v.exp - 1 < -4 \/ Len(v.mant) + v.exp - 1 >= 6
             THEN FormatE(v.mant, Len(v.mant) + v.exp - 1)
             ELSE FormatF(v.mant, Len(v.mant) + v.exp))

\* n / k and n % k for a numeral n and a small k, digit by digit
DivStep(p, d, k) ==
    [q |-> Append(p.q, (p.r * 10 + d) \div k), r |-> (p.r * 10 + d) % k]

RECURSIVE DivRem(_, _)
DivRem(n, k) ==
    IF n = << >> THEN [q |-> << >>, r |-> 0]
    ELSE DivStep(DivRem(Front(n), k), Last(n), k)

\* fmtFrac: the last prec digits of u as a fraction, without its trailing
\* zeros and without the point when nothing is left
RECURSIVE TrimZeros(_)
TrimZeros(f) ==
    IF f # << >> /\ f[Len(f)] = 0 THEN TrimZeros(Front(f)) ELSE f

LastDigits(u, prec) ==
    IF Len(u) >= prec THEN SubSeq(u, Len(u) - prec + 1, Len(u))
    ELSE [i \in 1..(prec - Len(u)) |-> 0] \o u

FracText(u, prec) ==
    IF TrimZeros(LastDigits(u, prec)) = << >> THEN << >>
    ELSE <<".">> \o DigitText(TrimZeros(LastDigits(u, prec)))

\* u / 10^prec
WholePart(u, prec) ==
    IF Len(u) > prec THEN SubSeq(u, 1, Len(u) - prec) ELSE << >>

\* the part of String for a second or more: hours, minutes and seconds of
\* the whole seconds sec, then the fraction
HoursMinutes(min) ==
    IF min = << >> THEN << >>
    ELSE (IF Norm(DivRem(min, 60).q) = << >> THEN << >>
          ELSE TextOf(Norm(DivRem(min, 60).q)) \o <<"h">>)
         \o TextOf(NatOf(DivRem(min, 60).r)) \o <<"m">>

SecondsText(sec, frac) ==
    HoursMinutes(Norm(DivRem(sec, 60).q))
    \o TextOf(NatOf(DivRem(sec, 60).r)) \o frac \o <<"s">>

\* Duration.String for the magnitude u in nanoseconds
MagnitudeText(u) ==
    IF u = << >> THEN <<"0", "s">>
    ELSE IF Len(u) <= 3 THEN TextOf(u) \o <<"n", "s">>
    ELSE IF Len(u) <= 6 THEN TextOf(WholePart(u, 3)) \o FracText(u, 3) \o <<"µ", "s">>
    ELSE IF Len(u) <= 9 THEN TextOf(WholePart(u, 6)) \o FracText(u, 6) \o <<"m", "s">>
    ELSE SecondsText(WholePart(u, 9), FracText(u, 9))

DurationString(d) ==
    IF d.neg THEN <<"-">> \o MagnitudeText(d.mag) ELSE MagnitudeText(d.mag)

\* the values whose canonical texts the variable is set to: both booleans;
\* integers up to the ends of the 32-bit and 64-bit ranges; floats in both
\* notations, the infinities and NaN; durations of every unit and the ends
\* of the range
BoolValues == BOOLEAN

SignedValues ==
    {ZeroInt, PosInt(<<7>>), NegInt(<<7>>), PosInt(<<3,2,1>>),
     PosInt(Pred(Two31)), NegInt(Two31), PosInt(Pred(Two63)), NegInt(Two63)}

UnsignedValues ==
    {ZeroInt, PosInt(<<7>>), PosInt(MaxUint32), PosInt(MaxUint64)}

FloatValues ==
    {ZeroFloat, FloatNum(FALSE, <<1,2>>, -1), FloatNum(TRUE, <<3,2,1,1,2,3>>, -3),
     FloatNum(FALSE, <<1>>, 6), FloatNum(FALSE, <<1,5>>, -8),
     FloatNum(FALSE, <<5>>, -4), FloatNum(FALSE, <<1,2>>, 3),
     Inf(FALSE), Inf(TRUE), NaN}

DurationValues ==
    {ZeroInt, PosInt(<<1>>), PosInt(<<1,5,0,0>>), PosInt(<<2,0,0,0,0,0,0,0,0>>),
     PosInt(<<1,5,0,0,0,0,0,0,0,0>>), PosInt(<<3,0,0,0,0,0,0,0,0,0>>),
     PosInt(<<7,5,2,0,0,0,0,0,0,0,0,0,0>>), NegInt(<<7,2,0,0,0,0,0,0,0,0,0,0,0>>),
     PosInt(Pred(Two63)), NegInt(Two63)}

RoundTexts ==
    {FormatBool(v) : v \in BoolValues}
    \cup {FormatInt(v) : v \in SignedValues \cup UnsignedValues}
    \cup {FormatFloat(v) : v \in FloatValues}
    \cup {DurationString(v) : v \in DurationValues}

\* ---------------------------------------------------- every accessor on a text
\* The accessors as functions of the text: the variable VALUE holds one of
\* the texts below, or is absent, and is read by each accessor.

Upper(c) ==
    CASE c = "t" -> "T" [] c = "r" -> "R" [] c = "u" -> "U" [] c = "e" -> "E"
      [] c = "f" -> "F" [] c = "a" -> "A" [] c = "l" -> "L" [] c = "s" -> "S"
      [] OTHER -> c

\* the word w with each set of its letters in upper case
CaseVariants(w) ==
    {[i \in 1..Len(w) |-> IF i \in S THEN Upper(w[i]) ELSE w[i]] : S \in SUBSET (1..Len(w))}

BoolTexts ==
    UNION {CaseVariants(w) : w \in {<<"t","r","u","e">>, <<"f","a","l","s","e">>, <<"t">>, <<"f">>}}
    \cup
    {<<"y","e","s">>, <<"n","o">>, <<"2">>, <<"0","1">>, <<" ","1">>,
     <<"t","r">>, <<"T","R","U","E","E">>}

DurationTexts ==
    {<<"0">>, <<"+","0">>, <<"-","0">>, <<"0","0">>, <<"0",".","0">>,
     <<"0","s">>, <<"7","s">>, <<"1",".","5","h">>, <<".","5","s">>,
     <<".","s">>, <<"7","x">>, <<"7"," ","s">>, <<"1","h","-","1","m">>,
     <<"1",".","5">>,
     <<"9","2","2","3","3","7","2","0","3","6","8","5","4","7","7","5","8","0","7","n","s">>,
     <<"9","2","2","3","3","7","2","0","3","6","8","5","4","7","7","5","8","0","8","n","s">>,
     <<"-","9","2","2","3","3","7","2","0","3","6","8","5","4","7","7","5","8","0","8","n","s">>,
     <<"-","9","2","2","3","3","7","2","0","3","6","8","5","4","7","7","5","8","0","9","n","s">>,
     <<"2","5","6","2","0","4","8","h">>, <<"1","u","s">>, <<"1","h","1">>}

FloatTexts ==
    {<<"1","e","4","0","0">>, <<"-","1","e","4","0","0">>,
     <<"1","e","4","0","0","x">>, <<"i","n","f">>, <<"+","I","n","f">>,
     <<"-","I","n","f","i","n","i","t","y">>, <<"N","a","N">>,
     <<"n","a","n">>, <<"-","n","a","n">>, <<"1","e","-","4","0","0">>,
     <<".","5">>, <<"5",".">>, <<"1","e">>, <<"1","e","+","0","6">>,
     <<"1",".","5","e","-","0","7">>, <<"-","3","2","1",".","1","2","3">>}

\* digits that leave the range of a type, and a character that is no digit
OverflowTexts ==
    UNION {{TextOf(n) \o <<"a">>, <<"-">> \o TextOf(n) \o <<" ">>, TextOf(n) \o <<".", "0">>} :
           n \in {Two31, NatAdd(MaxUint32, <<1>>), Two63, NatAdd(MaxUint64, <<1>>)}}

\* texts that strconv.Quote does not leave as they are
QuotedTexts ==
    {<<"7","\"">>, <<"\\">>, <<"\"">>}

AllTexts ==
    Texts \cup ShortTexts \cup BoundaryTexts \cup BoolTexts \cup DurationTexts
    \cup FloatTexts \cup OverflowTexts \cup QuotedTexts \cup RoundTexts

InitText ==
    /\ intSize \in {32, 64}
    /\ \E e \in {Absent} \cup {Present(t) : t \in AllTexts} :
           env = [k \in Names |-> IF k = "VALUE" THEN e ELSE Absent]
    /\ ret = NoCall
    /\ calls = [t \in Threads |-> Idle]

NextText ==
    \/ \E d \in BoolDefaults : CallBool("VALUE", d)
    \/ \E d \in BoolDefaults : CallBoolStrict("VALUE", d)
    \/ \E d \in DurationDefaults : CallDuration("VALUE", d)
    \/ \E d \in DurationDefaults : CallDurationStrict("VALUE", d)
    \/ \E d \in FloatDefaults : CallFloat64("VALUE", d)
    \/ \E d \in FloatDefaults : CallFloat64Strict("VALUE", d)
    \/ \E d \in IntDefaults : CallInt("VALUE", d)
    \/ \E d \in IntDefaults : CallIntStrict("VALUE", d)
    \/ \E d \in IntDefaults : CallInt64("VALUE", d)
    \/ \E d \in IntDefaults : CallInt64Strict("VALUE", d)
    \/ \E d \in StringDefaults : CallString("VALUE", d)
    \/ \E d \in IntDefaults : CallUint("VALUE", d)
    \/ \E d \in IntDefaults : CallUintStrict("VALUE", d)
    \/ \E d \in IntDefaults : CallUint64("VALUE", d)
    \/ \E d \in IntDefaults : CallUint64Strict("VALUE", d)

SpecText == InitText /\ [][NextText]_vars

\* ------------------------------------------------------ concurrent callers
\* Goroutines call accessors on VALUE while the variable is set and unset.
\* A call takes three steps: it begins, it reads the environment with
\* os.LookupEnv, and it returns.  What it returns is computed from the
\* locals strVal and ok alone, so it is fixed at the step of the lookup.

\* "1", which parses as an int, and "bad", which does not
ConcTexts == {<<"1">>, <<"b","a","d">>}

\* the accessors called concurrently, each with one default
ConcCalls ==
    {[op |-> "IntStrict", def |-> PosInt(<<3,2,1>>)],
     [op |-> "String", def |-> <<"d","e","f","a","u","l","t">>]}

\* a goroutine calls the accessor c.op on name with the default c.def
Begin(t, c, name) ==
    /\ calls[t].pc = "idle"
    /\ calls' = [calls EXCEPT ![t] =
                    [pc |-> "called", op |-> c.op, name |-> name, def |-> c.def,
                     seen |-> Absent, res |-> [val |-> FALSE, err |-> nil],
                     reads |-> 0, held |-> {LookupEnv(name)}]]
    /\ UNCHANGED <<intSize, env, ret>>

\* the call of t reads the environment, once, and has its result r
Looked(t, r) ==
    /\ calls' = [calls EXCEPT ![t] =
                    [@ EXCEPT !.pc = "looked", !.seen = LookupEnv(calls[t].name),
                              !.res = r, !.reads = @ + 1]]
    /\ UNCHANGED <<intSize, env, ret>>

LookupIntStrict(t) ==
    /\ calls[t].pc = "called" /\ calls[t].op = "IntStrict"
    /\ Looked(t, IntStrict(calls[t].name, calls[t].def))

LookupString(t) ==
    /\ calls[t].pc = "called" /\ calls[t].op = "String"
    /\ Looked(t, [val |-> String(calls[t].name, calls[t].def), err |-> nil])

\* String reading the variable again, with os.Getenv, when it returns
ReturnReread(t) ==
    /\ calls[t].pc = "looked"
    /\ ret' = [op |-> calls[t].op, name |-> calls[t].name, def |-> calls[t].def,
               seen |-> calls[t].seen,
               val |-> IF calls[t].op = "String" /\ calls[t].seen.ok
                       THEN LookupEnv(calls[t].name).val
                       ELSE calls[t].res.val,
               err |-> calls[t].res.err]
    /\ calls' = [calls EXCEPT ![t] = Idle]
    /\ UNCHANGED <<intSize, env>>

\* the call of t returns
Return(t) ==
    /\ calls[t].pc = "looked"
    /\ ret' = [op |-> calls[t].op, name |-> calls[t].name, def |-> calls[t].def,
               seen |-> calls[t].seen, val |-> calls[t].res.val,
               err |-> calls[t].res.err]
    /\ calls' = [calls EXCEPT ![t] = Idle]
    /\ UNCHANGED <<intSize, env>>

InitConc ==
    /\ intSize \in {32, 64}
    /\ env = [k \in Names |-> Absent]
    /\ ret = NoCall
    /\ calls = [t \in Threads |-> Idle]

NextConc ==
    \/ \E v \in ConcTexts : Setenv("VALUE", v)
    \/ Unsetenv("VALUE")
    \/ \E t \in Threads, c \in ConcCalls : Begin(t, c, "VALUE")
    \/ \E t \in Threads : LookupIntStrict(t)
    \/ \E t \in Threads : LookupString(t)
    \/ \E t \in Threads : Return(t)

SpecConc == InitConc /\ [][NextConc]_vars

\* ------------------------------------------------------------------- claims

\* the type an accessor parses
TypeOf(op) ==
    CASE op \in {"Bool", "BoolStrict"} -> "bool"
      [] op \in {"Duration", "DurationStrict"} -> "duration"
      [] op \in {"Float64", "Float64Strict"} -> "float64"
      [] op \in {"Int", "IntStrict"} -> "int"
      [] op \in {"Int64", "Int64Strict"} -> "int64"
      [] op \in {"Uint", "UintStrict"} -> "uint"
      [] op \in {"Uint64", "Uint64Strict"} -> "uint64"
      [] OTHER -> "string"

\* the outcome of parsing a text as a type, the value as the accessors return it
ParseAs(type, text) ==
    CASE type = "bool" -> ParseBool(text)
      [] type = "duration" -> ParseDuration(text)
      [] type = "float64" -> ParseFloat(text)
      [] type = "int" -> ParseInt(text, 0)
      [] type = "int64" -> ParseInt(text, 64)
      [] type = "uint" -> [val |-> PosInt(ParseUint(text, 0).val), err |-> ParseUint(text, 0).err]
      [] type = "uint64" -> [val |-> PosInt(ParseUint(text, 64).val), err |-> ParseUint(text, 64).err]

ZeroOf(type) ==
    CASE type = "bool" -> FALSE
      [] type = "float64" -> ZeroFloat
      [] type = "string" -> << >>
      [] OTHER -> ZeroInt

Parsing == Ordinary \ {"String"}

\* the call that returned last found the variable present with a text that
\* parses / does not parse as the accessor's type
SawParsable ==
    /\ ret.op \in Parsing \cup Strict
    /\ ret.seen.ok
    /\ ParseAs(TypeOf(ret.op), ret.seen.val).err = nil

SawUnparsable ==
    /\ ret.op \in Parsing \cup Strict
    /\ ret.seen.ok
    /\ ParseAs(TypeOf(ret.op), ret.seen.val).err # nil

\* C1: an ordinary accessor called on a name that is not in the environment
\* returns exactly the default it was given.
C1_AbsentOrdinaryDefault ==
    (ret.op \in Ordinary /\ ~ret.seen.ok) => ret.val = ret.def

C1_Witness ==
    /\ ret.op = "Float64" /\ ~ret.seen.ok
    /\ ret.def # ZeroFloat /\ ret.val = ret.def

\* C2: a strict accessor called on a name that is not in the environment
\* returns the default and a nil error.
C2_AbsentStrictDefaultNil ==
    (ret.op \in Strict /\ ~ret.seen.ok) => (ret.val = ret.def /\ ret.err = nil)

C2_Witness ==
    /\ ret.op = "IntStrict" /\ ~ret.seen.ok
    /\ ret.def # ZeroInt /\ ret.val = ret.def /\ ret.err = nil

\* C3: when the present text parses as the type, the ordinary form returns
\* the parsed value and the strict form returns it with a nil error: the
\* value is that of the text alone, the same for both forms and for every
\* default.
C3_ParsedValueBothForms ==
    SawParsable =>
        /\ ret.val = ParseAs(TypeOf(ret.op), ret.seen.val).val
        /\ ret.err = nil

C3_Witness ==
    /\ SawParsable /\ ret.op = "DurationStrict"
    /\ ret.val # ret.def /\ ret.def # ZeroInt /\ ret.val.neg

\* C4: an ordinary accessor of a parsed type whose variable is present with
\* a text that does not parse returns the default, and no error.
C4_UnparsableOrdinaryDefault ==
    (SawUnparsable /\ ret.op \in Parsing) => (ret.val = ret.def /\ ret.err = nil)

C4_Witness ==
    /\ SawUnparsable /\ ret.op = "Uint"
    /\ ParseAs("uint", ret.seen.val).err.Err = ErrRange
    /\ ret.def # ZeroInt /\ ret.val = ret.def

\* C5: a strict accessor whose variable is present with a text that does
\* not parse returns the zero value of the type and a non-nil error,
\* whatever the default: not the default, and not the bound the parser
\* clamps an out-of-range integer to.
C5_UnparsableStrictZeroError ==
    (SawUnparsable /\ ret.op \in Strict) =>
        (ret.val = ZeroOf(TypeOf(ret.op)) /\ ret.err # nil)

C5_Witness ==
    /\ SawUnparsable /\ ret.op = "Int64Strict"
    /\ ret.err.Err = ErrRange
    /\ ParseAs("int64", ret.seen.val).val # ZeroInt
    /\ ret.def # ZeroInt /\ ret.val = ZeroInt

\* C6: String returns the text of a present variable as it is, the empty
\* text included, and the default only when the variable is absent.
C6_StringVerbatim ==
    ret.op = "String" =>
        /\ ret.seen.ok => ret.val = ret.seen.val
        /\ ret.val # ret.seen.val => (~ret.seen.ok /\ ret.val = ret.def)

C6_Witness ==
    /\ ret.op = "String" /\ ret.seen.ok /\ ret.seen.val = << >>
    /\ ret.def # << >> /\ ret.val = << >>

\* C7: whatever was set, unset and called before, a call's result depends
\* only on what the lookup of its name gives and on its default: a call
\* that finds what the call before it found, with the same default,
\* returns what that call returned.
C7_ResultOfLookupAndDefault ==
    [][(/\ ret'.op = ret.op
        /\ ret'.seen = ret.seen
        /\ ret'.def = ret.def)
       => (ret'.val = ret.val /\ ret'.err = ret.err)]_vars

\* Bool has read "1" from VALUE and returned true, and VALUE has been unset
\* since: the call that comes now must not return what was read
C7_Witness ==
    /\ ret.op = "Bool" /\ ret.name = "VALUE"
    /\ ret.seen = Present(<<"1">>) /\ ret.val = TRUE /\ ret.def = FALSE
    /\ env["VALUE"] = Absent

\* an accessor has returned in this step (a call that repeats the call
\* before it in every respect leaves ret as it was: such a call is seen
\* where it is made after any other call)
Returned ==
    \/ ret'.op # ret.op
    \/ ret'.name # ret.name
    \/ ret'.seen # ret.seen
    \/ ret'.def # ret.def
    \/ ret'.val # ret.val
    \/ ret'.err # ret.err

\* C8: no accessor call changes the environment: the variables present
\* and their texts are after the call what they were before it.
C8_EnvironmentUnchanged == [][Returned => env' = env]_vars

C8_Witness ==
    /\ ret.op = "DurationStrict" /\ ret.seen.ok /\ ret.err # nil
    /\ env[ret.name] = ret.seen
    /\ env["OTHER"].ok /\ env["VALUE"].ok

IntOps == {"Int", "IntStrict", "Int64", "Int64Strict",
           "Uint", "UintStrict", "Uint64", "Uint64Strict"}

UintOps == {"Uint", "UintStrict", "Uint64", "Uint64Strict"}

SignedType(type) == type \in {"int", "int64"}

BitsOf(type) == IF type \in {"int", "uint"} THEN intSize ELSE 64

\* 2^k as a numeral, for the k that are a width or one less
Pow2(k) ==
    CASE k = 31 -> Two31
      [] k = 32 -> NatAdd(MaxUint32, <<1>>)
      [] k = 63 -> Two63
      [] k = 64 -> NatAdd(MaxUint64, <<1>>)

AllDigits(s) == s # << >> /\ \A i \in 1..Len(s) : s[i] \in Digits

HasSign(t) == t # << >> /\ Head(t) \in {"-", "+"}

Unsigned(t) == IF HasSign(t) THEN Rest(t) ELSE t

\* a base-10 integer in the grammar of the type: digits, after a sign for
\* the signed types only
WellFormed(type, t) ==
    IF SignedType(type) THEN AllDigits(Unsigned(t)) ELSE AllDigits(t)

Magnitude(t) == Norm([i \in 1..Len(Unsigned(t)) |-> DigitVal(Unsigned(t)[i])])

ValueOf(t) == IF Head(t) = "-" THEN NegInt(Magnitude(t)) ELSE PosInt(Magnitude(t))

\* the value of t is one the type represents
InRange(type, t) ==
    IF ~SignedType(type) THEN NatLess(Magnitude(t), Pow2(BitsOf(type)))
    ELSE IF Head(t) = "-" THEN NatLeq(Magnitude(t), Pow2(BitsOf(type) - 1))
    ELSE NatLess(Magnitude(t), Pow2(BitsOf(type) - 1))

SawInteger ==
    /\ ret.op \in IntOps
    /\ ret.seen.ok
    /\ WellFormed(TypeOf(ret.op), ret.seen.val)

\* C9: for each integer type, a present text that is a base-10 integer in
\* the type's grammar parses exactly when its value is in the type's range
\* (-2^63..2^63-1 and 0..2^64-1 at 64 bits): in range, both forms return the
\* value; out of range, one past a bound included, the ordinary form returns
\* the default and the strict form 0 and a "value out of range" error.
C9_IntegerRange ==
    SawInteger =>
        IF InRange(TypeOf(ret.op), ret.seen.val)
        THEN ret.val = ValueOf(ret.seen.val) /\ ret.err = nil
        ELSE IF ret.op \in Strict
        THEN ret.val = ZeroInt /\ ret.err.Err = ErrRange
        ELSE ret.val = ret.def

\* Int64Strict on -2^63 - 1, IntStrict on 2^63 where int has 64 bits
C9_Witness ==
    /\ SawInteger /\ ret.def # ZeroInt /\ ret.err.Err = ErrRange
    /\ \/ ret.op = "Int64Strict" /\ ret.seen.val = <<"-">> \o TextOf(NatAdd(Two63, <<1>>))
       \/ ret.op = "IntStrict" /\ intSize = 64 /\ ret.seen.val = TextOf(Two63)

\* C10: the unsigned accessors take no text that begins with "-", whatever
\* its magnitude: the ordinary forms return the default, the strict forms
\* 0 and an "invalid syntax" error, never "value out of range".
C10_UnsignedMinus ==
    (ret.op \in UintOps /\ ret.seen.ok /\ ret.seen.val # << >>
        /\ Head(ret.seen.val) = "-") =>
        IF ret.op \in Strict
        THEN ret.val = ZeroInt /\ ret.err.Err = ErrSyntax
        ELSE ret.val = ret.def

C10_Witness ==
    /\ ret.op = "UintStrict" /\ ret.seen = Present(<<"-", "0">>)
    /\ ret.def # ZeroInt /\ ret.val = ZeroInt /\ ret.err.Err = ErrSyntax

\* the parser behind a type, as its errors name it
ParserOf(type) ==
    CASE type = "bool" -> "ParseBool"
      [] type = "duration" -> "time"
      [] type = "float64" -> "ParseFloat"
      [] type \in {"int", "int64"} -> "ParseInt"
      [] type \in {"uint", "uint64"} -> "ParseUint"

\* the messages of time.ParseDuration
DurationReasons ==
    {"invalid duration", "missing unit in duration", "unknown unit in duration"}

IntegerTypes == {"int", "int64", "uint", "uint64"}

\* the sign, for a signed type, and the digits that follow it, up to the
\* first character that is no digit
DigitRun(type, t) ==
    IF SignedType(type) /\ HasSign(t)
    THEN <<Head(t)>> \o SubSeq(Rest(t), 1, DigitPrefixLen(Rest(t)))
    ELSE SubSeq(t, 1, DigitPrefixLen(t))

\* made of the characters of a decimal number, a digit among them
FloatChars(t) ==
    /\ \A i \in 1..Len(t) : t[i] \in Digits \cup {"+", "-", ".", "e", "E"}
    /\ \E i \in 1..Len(t) : t[i] \in Digits

\* the text is in the grammar of the type
MatchesGrammar(type, t) ==
    CASE type \in IntegerTypes -> WellFormed(type, t)
      [] type = "float64" -> ReadFloat(t).ok
      [] OTHER -> FALSE

StrictFailed == ret.op \in Strict /\ ret.err # nil

Contains(msg, sub) ==
    \E i \in 0..(Len(msg) - Len(sub)) : SubSeq(msg, i + 1, i + Len(sub)) = sub

\* C12 as it is stated: the message of a strict accessor's error contains
\* the text that failed to parse and names the category, invalid syntax or
\* out of range.
C12_TextAndCategory ==
    StrictFailed =>
        /\ Contains(ErrorMessage(ret.err), ret.seen.val)
        /\ \/ Contains(ErrorMessage(ret.err), Chars("invalid syntax"))
           \/ Contains(ErrorMessage(ret.err), Chars("out of range"))

\* C12, amended: for bool, float64 and the integer types the message
\* contains the text as strconv.Quote writes it, between double quotes and
\* with a backslash before a double quote or a backslash of the text, and
\* the category, "invalid syntax" or "value out of range"; for duration it
\* contains the text and, in place of a category, one of the reasons of
\* time.ParseDuration: invalid duration, missing unit, unknown unit.
C12_QuotedTextAndReason ==
    StrictFailed =>
        IF TypeOf(ret.op) = "duration"
        THEN /\ Contains(ErrorMessage(ret.err), ret.seen.val)
             /\ \/ Contains(ErrorMessage(ret.err), Chars("invalid duration"))
                \/ Contains(ErrorMessage(ret.err), Chars("missing unit in duration"))
                \/ Contains(ErrorMessage(ret.err), Chars("unknown unit "))
        ELSE /\ Contains(ErrorMessage(ret.err), Quote(ret.seen.val))
             /\ \/ Contains(ErrorMessage(ret.err), Chars("invalid syntax"))
                \/ Contains(ErrorMessage(ret.err), Chars("value out of range"))

\* the message for a text with a double quote in it
C12_Witness ==
    /\ StrictFailed /\ ret.op = "Uint64Strict"
    /\ ret.seen.val = <<"7", "\"">>
    /\ ErrorMessage(ret.err) =
           Chars("strconv.") \o Chars("ParseUint") \o Chars(": parsing ")
           \o <<"\"", "7", "\\", "\"", "\"">> \o Chars(": ") \o Chars("invalid syntax")
    /\ ~Contains(ErrorMessage(ret.err), ret.seen.val)

BoolOps == {"Bool", "BoolStrict"}

\* the call returned the outcome of a text that parses to b / that fails
\* to parse, as its form returns it
ParsedTo(b) == ret.val = b /\ ret.err = nil

Failed ==
    IF ret.op \in Strict
    THEN ret.val = ZeroOf(TypeOf(ret.op)) /\ ret.err # nil
    ELSE ret.val = ret.def /\ ret.err = nil

\* C13 as it is stated: Bool and BoolStrict take "true", "false", "t" and
\* "f" in any case of the letters, and "1" and "0"; any other text fails.
C13_CaseInsensitive ==
    (ret.op \in BoolOps /\ ret.seen.ok) =>
        IF FoldCase(ret.seen.val) \in {<<"t","r","u","e">>, <<"t">>, <<"1">>}
        THEN ParsedTo(TRUE)
        ELSE IF FoldCase(ret.seen.val) \in {<<"f","a","l","s","e">>, <<"f">>, <<"0">>}
        THEN ParsedTo(FALSE)
        ELSE Failed

TrueTokens ==
    {<<"1">>, <<"t">>, <<"T">>, <<"t","r","u","e">>, <<"T","R","U","E">>,
     <<"T","r","u","e">>}

FalseTokens ==
    {<<"0">>, <<"f">>, <<"F">>, <<"f","a","l","s","e">>, <<"F","A","L","S","E">>,
     <<"F","a","l","s","e">>}

\* C13, amended: Bool and BoolStrict take exactly the tokens 1, t, T, true,
\* TRUE, True for true and 0, f, F, false, FALSE, False for false; any
\* other text, the other mixtures of cases included, fails to parse.
C13_ExactTokens ==
    (ret.op \in BoolOps /\ ret.seen.ok) =>
        IF ret.seen.val \in TrueTokens THEN ParsedTo(TRUE)
        ELSE IF ret.seen.val \in FalseTokens THEN ParsedTo(FALSE)
        ELSE Failed

\* "tRuE" is refused, with a default of true
C13_Witness ==
    /\ ret.op = "BoolStrict" /\ ret.seen = Present(<<"t","R","u","E">>)
    /\ ret.def = TRUE /\ ret.val = FALSE /\ ret.err.Err = ErrSyntax

DurationOps == {"Duration", "DurationStrict"}

\* the text ends in a quantity that no unit follows: its last character is
\* a digit or a point
EndsInQuantity(t) == t # << >> /\ t[Len(t)] \in Digits \cup {"."}

SawNoUnit ==
    /\ ret.op \in DurationOps /\ ret.seen.ok
    /\ ret.seen.val = << >> \/ EndsInQuantity(ret.seen.val)

\* C14 as it is stated: Duration and DurationStrict fail on every text with
\* a quantity without a unit, "30" and "0" among them, and on the empty
\* text.
C14_NoUnitFails == SawNoUnit => Failed

\* C14, amended: Duration and DurationStrict fail on the empty text and on
\* every text with a quantity without a unit, but for "0", "+0" and "-0",
\* which parse to the zero duration.
C14_NoUnitFailsButZero ==
    SawNoUnit =>
        IF Unsigned(ret.seen.val) = <<"0">> THEN ParsedTo(ZeroInt) ELSE Failed

\* "0" read as the zero duration where the default is 3s
C14_Witness ==
    /\ ret.op = "Duration" /\ ret.seen = Present(<<"0">>)
    /\ ret.def # ZeroInt /\ ret.val = ZeroInt

SignedOps == {"Int", "IntStrict", "Int64", "Int64Strict"}

\* digits, after an optional "-"
MinusGrammar(t) ==
    AllDigits(IF t # << >> /\ Head(t) = "-" THEN Rest(t) ELSE t)

\* C15 as it is stated: the signed integer accessors take exactly the texts
\* made of an optional "-" and digits whose value is in range; every other
\* text, one with a leading "+" included, fails to parse.
C15_MinusOnly ==
    (ret.op \in SignedOps /\ ret.seen.ok) =>
        IF MinusGrammar(ret.seen.val) /\ InRange(TypeOf(ret.op), ret.seen.val)
        THEN ParsedTo(ValueOf(ret.seen.val))
        ELSE Failed

\* C15, amended: the signed integer accessors take exactly the texts made
\* of an optional "-" or "+" and one or more digits whose value is in
\* range, and return that value; every other text (empty, fractional,
\* with spaces around it, with letters) fails to parse.
C15_OptionalSign ==
    (ret.op \in SignedOps /\ ret.seen.ok) =>
        IF WellFormed(TypeOf(ret.op), ret.seen.val)
           /\ InRange(TypeOf(ret.op), ret.seen.val)
        THEN ParsedTo(ValueOf(ret.seen.val))
        ELSE Failed

\* "+7" read as 7 where the default is 321
C15_Witness ==
    /\ ret.op = "Int64" /\ ret.seen = Present(<<"+", "7">>)
    /\ ret.def # ZeroInt /\ ret.val = PosInt(<<7>>)

\* C16: where int and uint have 64 bits, for every environment, name and
\* default Int returns what Int64 returns and Uint what Uint64 returns, and
\* IntStrict and UintStrict return the value and the error that
\* Int64Strict and Uint64Strict return.
C16_NativeIs64 ==
    intSize = 64 =>
        \A k \in Names : \A d \in IntDefaults :
            /\ GetInt(k, d) = Int64(k, d)
            /\ IntStrict(k, d) = Int64Strict(k, d)
            /\ Uint(k, d) = Uint64(k, d)
            /\ UintStrict(k, d) = Uint64Strict(k, d)

\* Uint has read 2^32, which 32 bits do not hold, on a 64-bit platform
C16_Witness ==
    /\ intSize = 64 /\ ret.op = "Uint" /\ ret.name = "VALUE"
    /\ env["VALUE"] = Present(TextOf(NatAdd(MaxUint32, <<1>>)))
    /\ ret.seen = env["VALUE"]
    /\ ret.def # ret.val /\ ret.val = Uint64("VALUE", ret.def)

\* the values of a type, among those whose texts the variable is set to
ValuesOf(type) ==
    CASE type = "bool" -> BoolValues
      [] type = "duration" -> DurationValues
      [] type = "float64" -> FloatValues
      [] type \in {"int", "int64"} -> {v \in SignedValues : InRange(type, FormatInt(v))}
      [] type \in {"uint", "uint64"} -> {v \in UnsignedValues : InRange(type, FormatInt(v))}

\* the canonical text of a value of a type
FormatAs(type, v) ==
    CASE type = "bool" -> FormatBool(v)
      [] type = "duration" -> DurationString(v)
      [] type = "float64" -> FormatFloat(v)
      [] OTHER -> FormatInt(v)

\* Go's == on two values of a type: a NaN is equal to nothing
Same(type, a, b) ==
    IF type = "float64" THEN a.kind # "nan" /\ b.kind # "nan" /\ a = b ELSE a = b

\* the call that returned last found the canonical text of v
SawTextOf(v) ==
    ret.seen = Present(FormatAs(TypeOf(ret.op), v))

C18_ErrorWithDefault ==
    (SawUnparsable /\ ret.op \in Strict) =>
        /\ ret.err = ParseAs(TypeOf(ret.op), ret.seen.val).err
        /\ ret.val = ret.def

\* C18, amended: a strict accessor that fails to parse a present text
\* returns the error of the parser as the parser made it (the same
\* function, text and reason), and with it the zero value of the type
\* (false, 0, 0.0, the zero duration), not the default of the caller and
\* not the value the parser returned beside its error
C18_ErrorWithZeroValue ==
    (SawUnparsable /\ ret.op \in Strict) =>
        /\ ret.err = ParseAs(TypeOf(ret.op), ret.seen.val).err
        /\ ret.val = ZeroOf(TypeOf(ret.op))

\* Float64Strict, given the default 1.2, has read "1e400": it returned the
\* range error of ParseFloat and 0, neither 1.2 nor the infinity of the parser
C18_Witness ==
    /\ ret.op = "Float64Strict" /\ ret.name = "VALUE"
    /\ ret.seen = Present(<<"1","e","4","0","0">>)
    /\ ret.err = rangeError("ParseFloat", <<"1","e","4","0","0">>)
    /\ ParseFloat(ret.seen.val).val = Inf(FALSE)
    /\ ret.def = FloatNum(FALSE, <<1,2>>, -1) /\ ret.val = ZeroFloat

\* the strict outcome s with its error absorbed: the value if the error is
\* nil, the default d if not
Absorb(s, d) == IF s.err = nil THEN s.val ELSE d

\* C19: in every state of the environment, for every name and default and
\* for each of the seven types with both forms, the ordinary form returns
\* what the strict form returns when that comes with a nil error, and the
\* default when the strict form returns an error.
C19_OrdinaryAbsorbsStrict ==
    /\ \A k \in Names, d \in BoolDefaults :
           Bool(k, d) = Absorb(BoolStrict(k, d), d)
    /\ \A k \in Names, d \in DurationDefaults :
           Duration(k, d) = Absorb(DurationStrict(k, d), d)
    /\ \A k \in Names, d \in FloatDefaults :
           Float64(k, d) = Absorb(Float64Strict(k, d), d)
    /\ \A k \in Names, d \in IntDefaults :
           /\ GetInt(k, d) = Absorb(IntStrict(k, d), d)
           /\ Int64(k, d) = Absorb(Int64Strict(k, d), d)
           /\ Uint(k, d) = Absorb(UintStrict(k, d), d)
           /\ Uint64(k, d) = Absorb(Uint64Strict(k, d), d)

\* Int has returned its default 321 on digits out of the range of int, for
\* which IntStrict returns an error and the parser the bound it clamps to
C19_Witness ==
    /\ ret.op = "Int" /\ ret.name = "VALUE" /\ ret.seen = env["VALUE"]
    /\ ret.seen.ok
    /\ IntStrict("VALUE", ret.def).err.Err = ErrRange
    /\ ParseInt(ret.seen.val, 0).val \notin {ZeroInt, ret.def}
    /\ ret.def = PosInt(<<3,2,1>>) /\ ret.val = ret.def

\* what a call of op with the default d returns when its one lookup gives l
Outcome(op, l, d) ==
    IF ~l.ok THEN [val |-> d, err |-> nil]
    ELSE IF op = "String" THEN [val |-> l.val, err |-> nil]
    ELSE IF ParseAs(TypeOf(op), l.val).err = nil
    THEN [val |-> ParseAs(TypeOf(op), l.val).val, err |-> nil]
    ELSE IF op \in Strict
    THEN [val |-> ZeroOf(TypeOf(op)), err |-> ParseAs(TypeOf(op), l.val).err]
    ELSE [val |-> d, err |-> nil]

\* the call of t returns in this step
Returns(t) == calls[t].pc = "looked" /\ calls'[t].pc = "idle"

\* where each goroutine is in its call
Positions == [t \in Threads |-> calls[t].pc]

\* C20: a call that returns has read the environment exactly once, and
\* what it returns is what one lookup of its variable gives, a lookup that
\* was true at some instant of the call: the default if the variable was
\* absent then, the outcome of the text it held then if it was present;
\* and this while other goroutines call accessors and set and unset the
\* variable.  (A step that leaves every goroutine where it is returns no
\* call.)
C20_OneInstant ==
    [][\A t \in Threads :
           Returns(t) =>
               /\ calls[t].reads = 1
               /\ \E h \in calls[t].held :
                      [val |-> ret'.val, err |-> ret'.err]
                          = Outcome(calls[t].op, h, calls[t].def)]_Positions

\* IntStrict has returned 1, read from "1", and the variable is unset since;
\* the call of String by another goroutine, begun when the variable held
\* "bad", is still in flight and has lived through all three states
C20_Witness ==
    /\ ret.op = "IntStrict" /\ ret.seen = Present(<<"1">>)
    /\ ret.val = PosInt(<<1>>) /\ ret.err = nil
    /\ env["VALUE"] = Absent
    /\ \E t \in Threads :
           /\ calls[t].pc = "looked" /\ calls[t].op = "String"
           /\ calls[t].seen = Present(<<"b","a","d">>)
           /\ calls[t].res.val = <<"b","a","d">>
           /\ Cardinality(calls[t].held) = 3

====
